---- MODULE Spec2Model ----
(***************************************************************************)
(* Key lifecycle and account-state engine of src/app.js: Validator,        *)
(* Storage, UserManager, Auth and KeyManager over the browser's            *)
(* localStorage, with the clock read by every `new Date()` / `Date.now()`. *)
(*                                                                         *)
(* Strings are TLA+ strings; a character of a string s is SubSeq(s, i, i). *)
(* A timestamp is the pair [day, ms] that stands for day * DAY_MS + ms     *)
(* milliseconds, 0 <= ms < DAY_MS: the arithmetic is exact, and the 30-day *)
(* offset (2 592 000 000 ms) stays inside 32-bit integers.  An ISO         *)
(* string written by toISOString() and read back by new Date(s) is the     *)
(* same millisecond, so a stored date is kept as its timestamp.            *)
(***************************************************************************)
EXTENDS Integers, Sequences, FiniteSets, TLC

VARIABLES
    localStorage,   \* the browser's store: a function from the keys present to their parsed JSON value
    now,            \* the wall clock
    held,           \* the `user` object a page holds (from Auth.getCurrentUser()), or NULL
    result,         \* the call that has just returned: its arguments, what it returned, the store it found
    calls,          \* the number of engine calls made so far
    tabs            \* for each of two tabs that share the store, how far its Auth.register has got

vars == <<localStorage, now, held, result, calls, tabs>>

----------------------------------------------------------------------------
\* Bounds of the model.

\* The clock is sampled on days 0 .. MaxDay ...
MaxDay == 1
\* ... in the first MaxMs milliseconds of each of them.
MaxMs == 1
\* The engine is called at most MaxCalls times.
MaxCalls == 5

----------------------------------------------------------------------------
\* JavaScript's null, and the undefined of an absent string property.

NULL == [null |-> TRUE]

UNDEFINED == "<undefined>"

----------------------------------------------------------------------------
\* CONFIG

VALID_KEYS ==
    << [code |-> "DEMO-1234-ABCD-5678",   duration |-> "1day",     type |-> "Trial"],
       [code |-> "TEST-KEY1-2025-GAME",   duration |-> "1week",    type |-> "Standard"],
       [code |-> "FREE-BETA-KEY9-2025",   duration |-> "1month",   type |-> "Premium"],
       [code |-> "PREMIUM-2025-ALPHA",    duration |-> "lifetime", type |-> "Premium"],
       [code |-> "SPECIAL-ACCESS-2025",   duration |-> "lifetime", type |-> "Premium"],
       [code |-> "ADMIN-2025-MASTER-KEY", duration |-> "lifetime", type |-> "Admin"] >>

STORAGE_PREFIX == "user_"

CURRENT_USER_KEY == "currentUser"

MIN_USERNAME_LENGTH == 3

MAX_USERNAME_LENGTH == 20

MIN_PASSWORD_LENGTH == 6

\* 24 * 60 * 60 * 1000: the milliseconds of a day, the radix of a timestamp.
DAY_MS == 24 * 60 * 60 * 1000

\* n * 24 * 60 * 60 * 1000 milliseconds.
Days(n) == [day |-> n, ms |-> 0]

\* n milliseconds.
Millis(n) == [day |-> n \div DAY_MS, ms |-> n % DAY_MS]

\* CONFIG.DURATIONS: ms is 1, 7 and 30 times 24 * 60 * 60 * 1000, and null for lifetime.
DURATIONS ==
    [d \in {"1day", "1week", "1month", "lifetime"} |->
        CASE d = "1day"     -> [ms |-> Days(1),  label |-> "1 Day"]
          [] d = "1week"    -> [ms |-> Days(7),  label |-> "1 Week"]
          [] d = "1month"   -> [ms |-> Days(30), label |-> "1 Month"]
          [] d = "lifetime" -> [ms |-> NULL,     label |-> "Lifetime"]]

----------------------------------------------------------------------------
\* Timestamps.

\* a + b milliseconds, with the carry into the days.
TimeAdd(a, b) ==
    LET s == a.ms + b.ms
    IN  [day |-> a.day + b.day + (s \div DAY_MS), ms |-> s % DAY_MS]

\* a > b as Date objects compare.
TimeGT(a, b) == a.day > b.day \/ (a.day = b.day /\ a.ms > b.ms)

\* The non-decreasing sequences of n clock drifts (ms since the operation began), each at most d.
RECURSIVE Drifts(_, _)
Drifts(n, d) ==
    IF n = 0 THEN {<<>>}
    ELSE UNION {{Append(s, e) : e \in (IF Len(s) = 0 THEN 0 ELSE s[Len(s)]) .. d} : s \in Drifts(n - 1, d)}

\* The instants n successive clock reads of one operation may return: the clock
\* does not run backwards and stays within the instants the model samples.
ClockReads(n) ==
    {[i \in 1..n |-> TimeAdd(now, Millis(s[i]))] :
        s \in Drifts(n, MaxMs - now.ms)}

----------------------------------------------------------------------------
\* Utils

\* isExpired with >= for >: a key counts as expired at the very millisecond it expires.
isExpiredAtExpiry(expiryDate, t) ==
    IF expiryDate = NULL THEN FALSE
    ELSE ~TimeGT(expiryDate, t)

\* isExpired that compares the calendar days only.
isExpiredByDay(expiryDate, t) ==
    IF expiryDate = NULL THEN FALSE
    ELSE t.day > expiryDate.day

\* Utils.isExpired(expiryDate), `new Date()` returning t.
isExpired(expiryDate, t) ==
    IF expiryDate = NULL THEN FALSE
    ELSE TimeGT(t, expiryDate)

\* Utils.calculateExpiryDate(duration), `Date.now()` returning t.
calculateExpiryDate(duration, t) ==
    IF duration = "lifetime" THEN NULL
    ELSE LET ms == IF duration \in DOMAIN DURATIONS THEN DURATIONS[duration].ms ELSE NULL
         IN  IF ms = NULL \/ ms = Millis(0) THEN NULL
             ELSE TimeAdd(t, ms)

----------------------------------------------------------------------------
\* Strings and the character classes of the regular expressions.

Char(s, i) == SubSeq(s, i, i)

startsWith(s, prefix) ==
    /\ Len(s) >= Len(prefix)
    /\ SubSeq(s, 1, Len(prefix)) = prefix

UpperCase ==
    {"A", "B", "C", "D", "E", "F", "G", "H", "I", "J", "K", "L", "M",
     "N", "O", "P", "Q", "R", "S", "T", "U", "V", "W", "X", "Y", "Z"}

LowerCase ==
    {"a", "b", "c", "d", "e", "f", "g", "h", "i", "j", "k", "l", "m",
     "n", "o", "p", "q", "r", "s", "t", "u", "v", "w", "x", "y", "z"}

Digits == {"0", "1", "2", "3", "4", "5", "6", "7", "8", "9"}

\* /^[a-zA-Z0-9_]+$/.test(s)
usernamePattern(s) ==
    /\ Len(s) >= 1
    /\ \A i \in 1..Len(s) : Char(s, i) \in LowerCase \cup UpperCase \cup Digits \cup {"_"}

\* /^[A-Z0-9]{4}-[A-Z0-9]{4}-[A-Z0-9]{4}-[A-Z0-9]{4}$/.test(s)
keyPattern(s) ==
    /\ Len(s) = 19
    /\ \A i \in 1..19 :
          IF i \in {5, 10, 15} THEN Char(s, i) = "-"
          ELSE Char(s, i) \in UpperCase \cup Digits

----------------------------------------------------------------------------
\* Storage, over a store ls.  A write that localStorage.setItem refuses (it
\* throws, Storage.set catches and returns false) leaves the store as it was:
\* ok tells whether the browser accepts the write.

StorageGet(ls, key) == IF key \in DOMAIN ls THEN ls[key] ELSE NULL

StorageSet(ls, key, value, ok) ==
    IF ok THEN [k \in DOMAIN ls \cup {key} |-> IF k = key THEN value ELSE ls[k]]
    ELSE ls

StorageRemove(ls, key) == [k \in DOMAIN ls \ {key} |-> ls[k]]

\* getAllUsers that tests the keys against the prefix followed by a second
\* underscore: it finds no account record.
getAllUsersDoubledPrefix(ls) ==
    {ls[k] : k \in {j \in DOMAIN ls : startsWith(j, STORAGE_PREFIX \o "_")}}

\* Storage.getAllUsers(): the records under the keys that start with the prefix
\* (its callers only ask whether some record has a property, so the order of
\* localStorage.key(i) does not matter and the result is kept as a set).
getAllUsers(ls) == {ls[k] : k \in {j \in DOMAIN ls : startsWith(j, STORAGE_PREFIX)}}

----------------------------------------------------------------------------
\* Validator

ValidatorUsername(username) ==
    IF username = "" THEN [valid |-> FALSE, message |-> "Username is required"]
    ELSE IF Len(username) < MIN_USERNAME_LENGTH
         THEN [valid |-> FALSE, message |-> "Username must be at least 3 characters"]
    ELSE IF Len(username) > MAX_USERNAME_LENGTH
         THEN [valid |-> FALSE, message |-> "Username must be less than 20 characters"]
    ELSE IF ~usernamePattern(username)
         THEN [valid |-> FALSE, message |-> "Username can only contain letters, numbers and underscores"]
    ELSE [valid |-> TRUE]

ValidatorPassword(password) ==
    IF password = "" THEN [valid |-> FALSE, message |-> "Password is required"]
    ELSE IF Len(password) < MIN_PASSWORD_LENGTH
         THEN [valid |-> FALSE, message |-> "Password must be at least 6 characters"]
    ELSE [valid |-> TRUE]

\* Validator.key that looks the code up in the catalog before it tests its shape.
ValidatorKeyCatalogFirst(key) ==
    IF key = "" THEN [valid |-> FALSE, message |-> "Key is required"]
    ELSE LET found == {i \in 1..Len(VALID_KEYS) : VALID_KEYS[i].code = key}
         IN  IF found = {} THEN [valid |-> FALSE, message |-> "Invalid or expired key"]
             ELSE IF ~keyPattern(key)
                  THEN [valid |-> FALSE, message |-> "Invalid key format (use: XXXX-XXXX-XXXX-XXXX)"]
             ELSE [valid |-> TRUE,
                   data |-> VALID_KEYS[CHOOSE i \in found : \A j \in found : i <= j]]

ValidatorKey(key) ==
    IF key = "" THEN [valid |-> FALSE, message |-> "Key is required"]
    ELSE IF ~keyPattern(key)
         THEN [valid |-> FALSE, message |-> "Invalid key format (use: XXXX-XXXX-XXXX-XXXX)"]
    ELSE LET found == {i \in 1..Len(VALID_KEYS) : VALID_KEYS[i].code = key}
         IN  IF found = {} THEN [valid |-> FALSE, message |-> "Invalid or expired key"]
             ELSE [valid |-> TRUE,
                   data |-> VALID_KEYS[CHOOSE i \in found : \A j \in found : i <= j]]

----------------------------------------------------------------------------
\* UserManager

\* UserManager.exists that forgets the prefix of the storage key.
UserManagerExistsNoPrefix(ls, username) == StorageGet(ls, username) # NULL

UserManagerExists(ls, username) == StorageGet(ls, STORAGE_PREFIX \o username) # NULL

UserManagerGet(ls, username) == StorageGet(ls, STORAGE_PREFIX \o username)

\* The record UserManager.create builds; ts are its five clock reads, in the
\* order of the code: Date.now() in calculateExpiryDate, new Date() in
\* isExpired, and the three new Date() of activatedDate, joinDate, lastLogin.
newUserData(username, password, keyData, ts) ==
    LET expiryDate == calculateExpiryDate(keyData.duration, ts[1])
    IN  [username    |-> username,
         password    |-> password,
         isAdmin     |-> (keyData.type = "Admin"),
         keys        |-> << [code          |-> keyData.code,
                             game          |-> "Reverse",
                             type          |-> keyData.type,
                             duration      |-> keyData.duration,
                             active        |-> ~isExpired(expiryDate, ts[2]),
                             activatedDate |-> ts[3],
                             expiryDate    |-> expiryDate] >>,
         joinDate    |-> ts[4],
         balance     |-> 0,
         totalOrders |-> 0,
         lastLogin   |-> ts[5]]

\* UserManager.create: the store after it; it returns ok.
UserManagerCreate(ls, username, password, keyData, ts, ok) ==
    StorageSet(ls, STORAGE_PREFIX \o username, newUserData(username, password, keyData, ts), ok)

\* UserManager.update: the store after it.
UserManagerUpdate(ls, username, userData, ok) ==
    StorageSet(ls, STORAGE_PREFIX \o username, userData, ok)

\* UserManager.delete: the store after it.
UserManagerDelete(ls, username) == StorageRemove(ls, STORAGE_PREFIX \o username)

\* updateKeyStatus whose forEach recomputes nothing: the flags stay as stored.
refreshedKeysStale(user, ts) == user

\* The user object after the forEach of UserManager.updateKeyStatus; ts[i] is
\* the `new Date()` of the isExpired call for the i-th key.
refreshedKeys(user, ts) ==
    [user EXCEPT !.keys =
        [i \in 1..Len(user.keys) |->
            [user.keys[i] EXCEPT !.active = ~isExpired(user.keys[i].expiryDate, ts[i])]]]

\* `changed` at the end of that forEach.
keysChanged(user, ts) ==
    \E i \in 1..Len(user.keys) :
        user.keys[i].active # ~isExpired(user.keys[i].expiryDate, ts[i])

\* updateKeyStatus that writes the account whether or not a flag changed.
updateKeyStatusAlwaysWrites(ls, user, ts, ok) ==
    LET u == refreshedKeys(user, ts)
    IN  [user   |-> u,
         ls     |-> UserManagerUpdate(ls, u.username, u, ok),
         writes |-> 1]

\* UserManager.updateKeyStatus(user): the user object it returns (the one it
\* was given, mutated), the store after it, and the writes it attempted.
updateKeyStatus(ls, user, ts, ok) ==
    LET u == refreshedKeys(user, ts)
    IN  [user   |-> u,
         ls     |-> IF keysChanged(user, ts) THEN UserManagerUpdate(ls, u.username, u, ok) ELSE ls,
         writes |-> IF keysChanged(user, ts) THEN 1 ELSE 0]

----------------------------------------------------------------------------
\* KeyManager.getActiveCount(user)

getActiveCount(user) == Cardinality({i \in 1..Len(user.keys) : user.keys[i].active})

----------------------------------------------------------------------------
\* The inputs the operations are called with.

Usernames == {"alice", "bob", "x"}

Passwords == {"pw12345", "secret1", "short"}

\* The engine only validates a password and compares it for equality, so one
\* valid and one weak password are enough at registration; the second valid
\* one reaches the store through changePassword.
RegisterPasswords == {"pw12345", "short"}

CatalogCodes == {VALID_KEYS[i].code : i \in 1..Len(VALID_KEYS)}

\* A 1-day, a 1-week and the Admin code of the catalog, a code of the wrong
\* shape and a well-formed code that is not in the catalog.
Codes ==
    {"DEMO-1234-ABCD-5678", "TEST-KEY1-2025-GAME", "ADMIN-2025-MASTER-KEY",
     "BAD-FORMAT", "ABCD-1234-ABCD-1234"}

\* The instants the clock is sampled at.
Instants == {[day |-> d, ms |-> m] : d \in 0..MaxDay, m \in 0..MaxMs}

----------------------------------------------------------------------------
\* The state after the script has loaded in a browser whose store is empty.

NoResult ==
    [op |-> "none", args |-> <<>>, success |-> FALSE, message |-> UNDEFINED,
     redirectTo |-> UNDEFINED, writes |-> 0, refused |-> 0, before |-> NULL, at |-> NULL]

\* The tabs whose registers interleave.
Tabs == {"tab1", "tab2"}

\* A tab that has not called Auth.register.
IdleTab ==
    [pc |-> "idle", username |-> UNDEFINED, password |-> UNDEFINED, key |-> UNDEFINED,
     scanned |-> FALSE, accepted |-> FALSE, success |-> FALSE, message |-> UNDEFINED]

Init ==
    /\ localStorage = [k \in {} |-> NULL]
    /\ now = [day |-> 0, ms |-> 0]
    /\ held = NULL
    /\ result = NoResult
    /\ calls = 0
    /\ tabs = [t \in Tabs |-> IdleTab]

\* An operation returns { success, message } (and redirectTo from a successful
\* login); writes counts the Storage.set calls it made, refused those of them
\* that the browser refused, before is the store it was called on and at the
\* clock when it was called.
Returns(op, args, success, message, redirectTo, writes, refused) ==
    result' = [op |-> op, args |-> args, success |-> success, message |-> message,
               redirectTo |-> redirectTo, writes |-> writes, refused |-> refused,
               before |-> localStorage, at |-> now]

\* The engine is idle and is called once more.
BeginCall ==
    /\ result = NoResult
    /\ calls < MaxCalls
    /\ calls' = calls + 1
    /\ UNCHANGED tabs

\* 1 for a write the browser refused, 0 for one it accepted.
Refused(ok) == IF ok THEN 0 ELSE 1

----------------------------------------------------------------------------
\* Auth

\* A return of Auth.register before it has touched the store.
RegisterFails(args, message) ==
    /\ Returns("register", args, FALSE, message, UNDEFINED, 0, 0)
    /\ UNCHANGED <<localStorage, now>>

\* The end of Auth.register: UserManager.create and the result built from what it returned.
RegisterCreates(username, password, keyData, args) ==
    \E ts \in ClockReads(5), created \in BOOLEAN :
        /\ localStorage' = UserManagerCreate(localStorage, username, password, keyData, ts, created)
        /\ now' = ts[5]
        /\ IF created
           THEN Returns("register", args, TRUE, "Account created successfully!", UNDEFINED, 1, 0)
           ELSE Returns("register", args, FALSE, "Failed to create account", UNDEFINED, 1, 1)

\* `keyUsed` of Auth.register.
keyUsed(ls, key) ==
    \E user \in getAllUsers(ls) : \E i \in 1..Len(user.keys) : user.keys[i].code = key

\* Auth.register that checks the password before the username.
RegisterPasswordFirst(username, password, key) ==
    LET usernameValidation == ValidatorUsername(username)
        passwordValidation == ValidatorPassword(password)
        keyValidation      == ValidatorKey(key)
        args               == <<username, password, key>>
    IN  /\ BeginCall
        /\ UNCHANGED held
        /\ IF ~passwordValidation.valid THEN RegisterFails(args, passwordValidation.message)
           ELSE IF ~usernameValidation.valid THEN RegisterFails(args, usernameValidation.message)
           ELSE IF ~keyValidation.valid THEN RegisterFails(args, keyValidation.message)
           ELSE IF UserManagerExists(localStorage, username)
                THEN RegisterFails(args, "Username already taken")
           ELSE IF keyUsed(localStorage, key) THEN RegisterFails(args, "Key already used")
           ELSE RegisterCreates(username, password, keyValidation.data, args)

\* Auth.register(username, password, key)
Register(username, password, key) ==
    LET usernameValidation == ValidatorUsername(username)
        passwordValidation == ValidatorPassword(password)
        keyValidation      == ValidatorKey(key)
        args               == <<username, password, key>>
    IN  /\ BeginCall
        /\ UNCHANGED held
        /\ IF ~usernameValidation.valid THEN RegisterFails(args, usernameValidation.message)
           ELSE IF ~passwordValidation.valid THEN RegisterFails(args, passwordValidation.message)
           ELSE IF ~keyValidation.valid THEN RegisterFails(args, keyValidation.message)
           ELSE IF UserManagerExists(localStorage, username)
                THEN RegisterFails(args, "Username already taken")
           ELSE IF keyUsed(localStorage, key) THEN RegisterFails(args, "Key already used")
           ELSE RegisterCreates(username, password, keyValidation.data, args)

\* A return of Auth.login before it has touched the store.
LoginFails(args, message) ==
    /\ Returns("login", args, FALSE, message, UNDEFINED, 0, 0)
    /\ UNCHANGED <<localStorage, now>>

\* The end of Auth.login, for the stored user whose password matched: three
\* writes (the first only when a key status changed), none of them checked.
LoginSucceeds(user, args) ==
    \E ts \in ClockReads(1 + Len(user.keys)), ok1, ok2, ok3 \in BOOLEAN :
        LET stamped == [user EXCEPT !.lastLogin = ts[1]]
            status  == updateKeyStatus(localStorage, stamped,
                                       [i \in 1..Len(user.keys) |-> ts[i + 1]], ok1)
            updated == UserManagerUpdate(status.ls, args[1], status.user, ok2)
        IN  /\ status.writes = 0 => ok1
            /\ localStorage' = StorageSet(updated, CURRENT_USER_KEY, args[1], ok3)
            /\ now' = ts[1 + Len(user.keys)]
            /\ Returns("login", args, TRUE, UNDEFINED,
                       IF status.user.isAdmin THEN "admin.html" ELSE "dashboard.html",
                       status.writes + 2,
                       (IF status.writes = 1 THEN Refused(ok1) ELSE 0)
                           + Refused(ok2) + Refused(ok3))

\* Auth.login that stamps and stores lastLogin before it compares the password.
LoginStampsFirst(username, password) ==
    LET user == UserManagerGet(localStorage, username)
        args == <<username, password>>
    IN  /\ BeginCall
        /\ UNCHANGED held
        /\ IF user = NULL THEN LoginFails(args, "User not found")
           ELSE IF user.password # password
           THEN /\ localStorage' =
                      UserManagerUpdate(localStorage, username,
                                        [user EXCEPT !.lastLogin = now], TRUE)
                /\ Returns("login", args, FALSE, "Incorrect password", UNDEFINED, 1, 0)
                /\ UNCHANGED now
           ELSE LoginSucceeds(user, args)

\* Auth.login(username, password)
Login(username, password) ==
    LET user == UserManagerGet(localStorage, username)
        args == <<username, password>>
    IN  /\ BeginCall
        /\ UNCHANGED held
        /\ IF user = NULL THEN LoginFails(args, "User not found")
           ELSE IF user.password # password THEN LoginFails(args, "Incorrect password")
           ELSE LoginSucceeds(user, args)

\* Auth.logout that calls UserManager.delete with the pointer's name instead
\* of Storage.remove: it removes the key "user_currentUser", which no one set.
LogoutDeletesUser ==
    /\ BeginCall
    /\ localStorage' = UserManagerDelete(localStorage, CURRENT_USER_KEY)
    /\ Returns("logout", <<>>, TRUE, UNDEFINED, UNDEFINED, 0, 0)
    /\ UNCHANGED <<now, held>>

\* Auth.logout()
Logout ==
    /\ BeginCall
    /\ localStorage' = StorageRemove(localStorage, CURRENT_USER_KEY)
    /\ Returns("logout", <<>>, TRUE, UNDEFINED, UNDEFINED, 0, 0)
    /\ UNCHANGED <<now, held>>

\* The keys whose status Auth.getCurrentUser() recomputes: one clock read each.
currentKeys(ls) ==
    IF CURRENT_USER_KEY \notin DOMAIN ls THEN 0
    ELSE IF UserManagerGet(ls, ls[CURRENT_USER_KEY]) = NULL THEN 0
    ELSE Len(UserManagerGet(ls, ls[CURRENT_USER_KEY]).keys)

\* Auth.getCurrentUser(): the user object it returns (or NULL), the store
\* after it and the writes it attempted.
getCurrentUser(ls, ts, ok) ==
    IF CURRENT_USER_KEY \notin DOMAIN ls THEN [user |-> NULL, ls |-> ls, writes |-> 0]
    ELSE LET user == UserManagerGet(ls, ls[CURRENT_USER_KEY])
         IN  IF user = NULL THEN [user |-> NULL, ls |-> ls, writes |-> 0]
             ELSE updateKeyStatus(ls, user, ts, ok)

\* The clock after an operation whose clock reads were ts.
ClockAfter(ts) == IF Len(ts) = 0 THEN now ELSE ts[Len(ts)]

\* A page loads and keeps Auth.getCurrentUser() as its `user`.
GetCurrentUser ==
    /\ BeginCall
    /\ \E ts \in ClockReads(currentKeys(localStorage)), ok \in BOOLEAN :
          LET current == getCurrentUser(localStorage, ts, ok)
          IN  /\ current.writes = 0 => ok
              /\ held' = current.user
              /\ localStorage' = current.ls
              /\ now' = ClockAfter(ts)
              /\ Returns("getCurrentUser", <<>>, current.user # NULL, UNDEFINED, UNDEFINED,
                         current.writes, IF current.writes = 1 THEN Refused(ok) ELSE 0)

\* Auth.changePassword(currentPassword, newPassword, confirmPassword)
ChangePassword(currentPassword, newPassword, confirmPassword) ==
    /\ BeginCall
    /\ UNCHANGED held
    /\ \E ts \in ClockReads(currentKeys(localStorage)), ok1, ok2 \in BOOLEAN :
          LET current    == getCurrentUser(localStorage, ts, ok1)
              user       == current.user
              validation == ValidatorPassword(newPassword)
              args       == <<currentPassword, newPassword, confirmPassword>>
              refused1   == IF current.writes = 1 THEN Refused(ok1) ELSE 0
              Fails(message) ==
                  /\ ok2
                  /\ localStorage' = current.ls
                  /\ Returns("changePassword", args, FALSE, message, UNDEFINED,
                             current.writes, refused1)
          IN  /\ current.writes = 0 => ok1
              /\ now' = ClockAfter(ts)
              /\ IF user = NULL THEN Fails("Not logged in")
                 ELSE IF user.password # currentPassword
                 THEN Fails("Current password is incorrect")
                 ELSE IF ~validation.valid THEN Fails(validation.message)
                 ELSE IF newPassword # confirmPassword THEN Fails("Passwords do not match")
                 ELSE /\ localStorage' =
                            UserManagerUpdate(current.ls, user.username,
                                              [user EXCEPT !.password = newPassword], ok2)
                      /\ Returns("changePassword", args, TRUE, "Password changed successfully",
                                 UNDEFINED, current.writes + 1, refused1 + Refused(ok2))

----------------------------------------------------------------------------
\* KeyManager

\* The key object KeyManager.redeem pushes; ts are its three clock reads:
\* Date.now() in calculateExpiryDate, new Date() in isExpired, and the
\* new Date() of activatedDate.
redeemedKey(key, keyData, ts) ==
    LET expiryDate == calculateExpiryDate(keyData.duration, ts[1])
    IN  [code          |-> key,
         game          |-> "Reverse",
         type          |-> keyData.type,
         duration      |-> keyData.duration,
         active        |-> ~isExpired(expiryDate, ts[2]),
         activatedDate |-> ts[3],
         expiryDate    |-> expiryDate]

\* KeyManager.redeem that also makes the account an administrator when the
\* redeemed key is of a tier above Trial.
RedeemUpgrades(key) ==
    LET validation == ValidatorKey(key)
        args       == <<key>>
    IN  /\ BeginCall
        /\ IF held = NULL
           THEN /\ Returns("redeem", args, FALSE, "Not logged in", UNDEFINED, 0, 0)
                /\ UNCHANGED <<localStorage, now, held>>
           ELSE IF ~validation.valid
           THEN /\ Returns("redeem", args, FALSE, validation.message, UNDEFINED, 0, 0)
                /\ UNCHANGED <<localStorage, now, held>>
           ELSE IF \E i \in 1..Len(held.keys) : held.keys[i].code = key
           THEN /\ Returns("redeem", args, FALSE, "You already have this key", UNDEFINED, 0, 0)
                /\ UNCHANGED <<localStorage, now, held>>
           ELSE \E ts \in ClockReads(3), ok \in BOOLEAN :
                   LET pushed == [held EXCEPT
                                     !.keys = Append(@, redeemedKey(key, validation.data, ts)),
                                     !.isAdmin = @ \/ validation.data.type # "Trial"]
                   IN  /\ held' = pushed
                       /\ localStorage' =
                             UserManagerUpdate(localStorage, pushed.username, pushed, ok)
                       /\ now' = ts[3]
                       /\ Returns("redeem", args, TRUE, "Key activated successfully!",
                                  UNDEFINED, 1, Refused(ok))

\* KeyManager.redeem(key, user), called with the page's `user`
Redeem(key) ==
    LET validation == ValidatorKey(key)
        args       == <<key>>
    IN  /\ BeginCall
        /\ IF held = NULL
           THEN /\ Returns("redeem", args, FALSE, "Not logged in", UNDEFINED, 0, 0)
                /\ UNCHANGED <<localStorage, now, held>>
           ELSE IF ~validation.valid
           THEN /\ Returns("redeem", args, FALSE, validation.message, UNDEFINED, 0, 0)
                /\ UNCHANGED <<localStorage, now, held>>
           ELSE IF \E i \in 1..Len(held.keys) : held.keys[i].code = key
           THEN /\ Returns("redeem", args, FALSE, "You already have this key", UNDEFINED, 0, 0)
                /\ UNCHANGED <<localStorage, now, held>>
           ELSE \E ts \in ClockReads(3), ok \in BOOLEAN :
                   LET pushed == [held EXCEPT
                                     !.keys = Append(@, redeemedKey(key, validation.data, ts))]
                   IN  /\ held' = pushed
                       /\ localStorage' =
                             UserManagerUpdate(localStorage, pushed.username, pushed, ok)
                       /\ now' = ts[3]
                       /\ Returns("redeem", args, TRUE, "Key activated successfully!",
                                  UNDEFINED, 1, Refused(ok))

\* UserManager.updateKeyStatus(user), called with the page's `user`
UpdateKeyStatus ==
    /\ BeginCall
    /\ held # NULL
    /\ \E ts \in ClockReads(Len(held.keys)), ok \in BOOLEAN :
          LET status == updateKeyStatus(localStorage, held, ts, ok)
          IN  /\ status.writes = 0 => ok
              /\ held' = status.user
              /\ localStorage' = status.ls
              /\ now' = ClockAfter(ts)
              /\ Returns("updateKeyStatus", <<>>, TRUE, UNDEFINED, UNDEFINED,
                         status.writes, IF status.writes = 1 THEN Refused(ok) ELSE 0)

----------------------------------------------------------------------------
\* The caller has taken the returned value (a toast, a redirect): the engine is
\* idle until the next call.
Return ==
    /\ result # NoResult
    /\ result' = NoResult
    /\ UNCHANGED <<localStorage, now, held, calls, tabs>>

\* Time passes between two calls.
Tick ==
    /\ result = NoResult
    /\ \E t \in Instants : TimeGT(t, now) /\ now' = t
    /\ UNCHANGED <<localStorage, held, result, calls, tabs>>

----------------------------------------------------------------------------
\* One tab, one operation at a time.

Next ==
    \/ \E username \in Usernames, password \in RegisterPasswords, key \in Codes :
          Register(username, password, key)
    \/ \E username \in Usernames, password \in Passwords : Login(username, password)
    \/ Logout
    \/ GetCurrentUser
    \/ \E currentPassword, newPassword, confirmPassword \in Passwords :
          ChangePassword(currentPassword, newPassword, confirmPassword)
    \/ \E key \in Codes : Redeem(key)
    \/ UpdateKeyStatus
    \/ Return
    \/ Tick

Spec == Init /\ [][Next]_vars

----------------------------------------------------------------------------
\* Two tabs on one store.  Each tab runs Auth.register once; the JavaScript of
\* a tab runs to completion, but between two accesses of one tab to the
\* store the other tab may access it.  A step is one access of register to
\* the store: the read of UserManager.exists, the reads of
\* Storage.getAllUsers (taken together: the interleavings at the grain of its
\* single reads include these), the write of UserManager.create.  The clock
\* stands still.

\* The tab has done what `change` says.
TabDoes(t, change) ==
    /\ tabs' = [tabs EXCEPT ![t] = change]
    /\ UNCHANGED <<now, held, result, calls>>

\* register returned { success: false, message }.
TabFailed(t, message) == [tabs[t] EXCEPT !.pc = "done", !.success = FALSE, !.message = message]

\* Auth.register is called in tab t: the three validations, which read no store.
TabRegister(t, username, password, key) ==
    LET usernameValidation == ValidatorUsername(username)
        passwordValidation == ValidatorPassword(password)
        keyValidation      == ValidatorKey(key)
        called             == [tabs[t] EXCEPT !.username = username, !.password = password,
                                              !.key = key]
    IN  /\ tabs[t].pc = "idle"
        /\ UNCHANGED localStorage
        /\ TabDoes(t, IF ~usernameValidation.valid
                         THEN [called EXCEPT !.pc = "done", !.message = usernameValidation.message]
                      ELSE IF ~passwordValidation.valid
                         THEN [called EXCEPT !.pc = "done", !.message = passwordValidation.message]
                      ELSE IF ~keyValidation.valid
                         THEN [called EXCEPT !.pc = "done", !.message = keyValidation.message]
                      ELSE [called EXCEPT !.pc = "exists"])

\* if (UserManager.exists(username)) return ...
TabExists(t) ==
    /\ tabs[t].pc = "exists"
    /\ UNCHANGED localStorage
    /\ TabDoes(t, IF UserManagerExists(localStorage, tabs[t].username)
                     THEN TabFailed(t, "Username already taken")
                  ELSE [tabs[t] EXCEPT !.pc = "scan"])

\* const allUsers = Storage.getAllUsers(); keyUsed; if (keyUsed) return ...
TabScan(t) ==
    /\ tabs[t].pc = "scan"
    /\ UNCHANGED localStorage
    /\ TabDoes(t, IF keyUsed(localStorage, tabs[t].key)
                     THEN TabFailed(t, "Key already used")
                  ELSE [tabs[t] EXCEPT !.pc = "create", !.scanned = TRUE])

\* UserManager.create that scans the store once more before it writes.
TabCreateRescans(t) ==
    /\ tabs[t].pc = "create"
    /\ \E created \in BOOLEAN :
          IF keyUsed(localStorage, tabs[t].key)
          THEN /\ UNCHANGED localStorage
               /\ TabDoes(t, [TabFailed(t, "Key already used") EXCEPT !.accepted = created])
          ELSE /\ localStorage' =
                     UserManagerCreate(localStorage, tabs[t].username, tabs[t].password,
                                       ValidatorKey(tabs[t].key).data, [i \in 1..5 |-> now], created)
               /\ TabDoes(t, [tabs[t] EXCEPT
                                 !.pc = "done", !.accepted = created, !.success = created,
                                 !.message = IF created THEN "Account created successfully!"
                                             ELSE "Failed to create account"])

\* const created = UserManager.create(...); return created ? ... : ...
TabCreate(t) ==
    /\ tabs[t].pc = "create"
    /\ \E created \in BOOLEAN :
          /\ localStorage' =
                UserManagerCreate(localStorage, tabs[t].username, tabs[t].password,
                                  ValidatorKey(tabs[t].key).data, [i \in 1..5 |-> now], created)
          /\ TabDoes(t, [tabs[t] EXCEPT
                            !.pc = "done", !.accepted = created, !.success = created,
                            !.message = IF created THEN "Account created successfully!"
                                        ELSE "Failed to create account"])

TabsNext ==
    \/ \E t \in Tabs, username \in Usernames, password \in RegisterPasswords, key \in Codes :
          TabRegister(t, username, password, key)
    \/ \E t \in Tabs : TabExists(t)
    \/ \E t \in Tabs : TabScan(t)
    \/ \E t \in Tabs : TabCreate(t)

TabsSpec == Init /\ [][TabsNext]_vars

----------------------------------------------------------------------------
\* What the properties below speak of.

\* The codes in the keys of an account.
CodesOf(user) == {user.keys[i].code : i \in 1..Len(user.keys)}

\* The account records of a store.
Accounts(ls) == {ls[k] : k \in DOMAIN ls \ {CURRENT_USER_KEY}}

\* The session pointer of store ls names username.
SessionIs(ls, username) ==
    /\ CURRENT_USER_KEY \in DOMAIN ls
    /\ ls[CURRENT_USER_KEY] = username

\* Two stores hold the same session pointer, or both none.
SameSession(ls1, ls2) ==
    /\ (CURRENT_USER_KEY \in DOMAIN ls1) = (CURRENT_USER_KEY \in DOMAIN ls2)
    /\ CURRENT_USER_KEY \in DOMAIN ls1 => ls1[CURRENT_USER_KEY] = ls2[CURRENT_USER_KEY]

\* The call that has just returned is op, called with args.
Returned(op, args) == result.op = op /\ result.args = args

ValidUsernames == {u \in Usernames : ValidatorUsername(u).valid}

ValidPasswords == {p \in Passwords : ValidatorPassword(p).valid}

----------------------------------------------------------------------------
\* C1 (as claimed; the code violates it): no code is in the keys of two
\* different stored accounts, and a redeem of a code that another stored
\* account holds fails with "Key already used" and leaves the store as it was.
C1_KeyUniqueness ==
    /\ \A a, b \in Accounts(localStorage) :
          a.username # b.username => CodesOf(a) \cap CodesOf(b) = {}
    /\ \A key \in Codes :
          /\ Returned("redeem", <<key>>)
          /\ \E other \in Accounts(result.before) : key \in CodesOf(other)
          => /\ ~result.success
             /\ result.message = "Key already used"
             /\ localStorage = result.before

\* C2 (as claimed; the code violates it): a register with a valid username
\* that has no account, a valid password and the Admin code of the catalog,
\* which no account holds, whose write the browser accepts, succeeds and
\* stores an account with isAdmin = TRUE.
C2_AdminRegistration ==
    \A username \in ValidUsernames, password \in ValidPasswords :
        /\ Returned("register", <<username, password, "ADMIN-2025-MASTER-KEY">>)
        /\ UserManagerGet(result.before, username) = NULL
        /\ \A a \in Accounts(result.before) : "ADMIN-2025-MASTER-KEY" \notin CodesOf(a)
        /\ result.refused = 0
        => /\ result.success
           /\ UserManagerGet(localStorage, username) # NULL
           /\ UserManagerGet(localStorage, username).isAdmin

\* C3 (as claimed; the code violates it): when the browser refuses a write
\* of register, login, redeem or changePassword, the operation reports
\* failure and the store is as it was before the call.
C3_RefusedWriteFails ==
    /\ result.op \in {"register", "login", "redeem", "changePassword"}
    /\ result.refused > 0
    => /\ ~result.success
       /\ localStorage = result.before

\* C4 (as claimed; the code answers with the username's failure):
\* register("x", "pw12345", "BAD-FORMAT") fails with the key's BadFormat
\* message and persists nothing.
C4_ScenarioD ==
    Returned("register", <<"x", "pw12345", "BAD-FORMAT">>)
    => /\ ~result.success
       /\ result.message = "Invalid key format (use: XXXX-XXXX-XXXX-XXXX)"
       /\ localStorage = result.before

\* C4 (amended): a register with a username and a password that pass their
\* validation and a non-empty code that is not of the shape
\* XXXX-XXXX-XXXX-XXXX fails with the BadFormat message, whether or not the
\* code is in the catalog, and writes nothing; with the username "x" it fails
\* with the username's TooShort message instead.
C4_BadFormat ==
    /\ \A username \in ValidUsernames, password \in ValidPasswords, key \in Codes :
          /\ Returned("register", <<username, password, key>>)
          /\ key # ""
          /\ ~keyPattern(key)
          => /\ ~result.success
             /\ result.message = "Invalid key format (use: XXXX-XXXX-XXXX-XXXX)"
             /\ result.writes = 0
             /\ localStorage = result.before
    /\ Returned("register", <<"x", "pw12345", "BAD-FORMAT">>)
          => /\ ~result.success
             /\ result.message = "Username must be at least 3 characters"
             /\ localStorage = result.before

\* C4's case: register("alice", "pw12345", "BAD-FORMAT") has returned BadFormat.
C4_Witness ==
    /\ Returned("register", <<"alice", "pw12345", "BAD-FORMAT">>)
    /\ result.message = "Invalid key format (use: XXXX-XXXX-XXXX-XXXX)"

\* C5: register reports the failure of the first of username, password and
\* key that fails its validation, and when one of them fails no record is
\* created and the store is as it was, whatever the store holds.
C5_ValidationOrder ==
    \A username \in Usernames, password \in Passwords, key \in Codes :
        Returned("register", <<username, password, key>>)
        => LET u == ValidatorUsername(username)
               p == ValidatorPassword(password)
               k == ValidatorKey(key)
           IN  /\ ~u.valid => result.message = u.message
               /\ u.valid /\ ~p.valid => result.message = p.message
               /\ u.valid /\ p.valid /\ ~k.valid => result.message = k.message
               /\ ~u.valid \/ ~p.valid \/ ~k.valid
                  => /\ ~result.success
                     /\ result.writes = 0
                     /\ localStorage = result.before
               /\ username = "x" => result.message = "Username must be at least 3 characters"
               /\ username # "x" /\ password = "short"
                  => result.message = "Password must be at least 6 characters"

\* C5's case: a register whose password and key are both invalid, for a
\* username that is taken, has reported the password.
C5_Witness ==
    /\ Returned("register", <<"alice", "short", "BAD-FORMAT">>)
    /\ UserManagerGet(result.before, "alice") # NULL
    /\ result.message = "Password must be at least 6 characters"

\* C6: a register with fields that pass validation, for a username that has
\* no account, with a code that is in the keys of a stored account, fails
\* with "Key already used", creates no account for the username and leaves
\* every record as it was.
C6_KeyAlreadyUsed ==
    \A username \in ValidUsernames, password \in ValidPasswords, key \in Codes :
        /\ Returned("register", <<username, password, key>>)
        /\ ValidatorKey(key).valid
        /\ UserManagerGet(result.before, username) = NULL
        /\ \E a \in Accounts(result.before) : key \in CodesOf(a)
        => /\ ~result.success
           /\ result.message = "Key already used"
           /\ UserManagerGet(localStorage, username) = NULL
           /\ localStorage = result.before

\* C6's case: bob's register with the code alice holds has failed.
C6_Witness ==
    /\ Returned("register", <<"bob", "pw12345", "DEMO-1234-ABCD-5678">>)
    /\ UserManagerGet(result.before, "alice") # NULL
    /\ "DEMO-1234-ABCD-5678" \in CodesOf(UserManagerGet(result.before, "alice"))
    /\ ~result.success

C8_FailedLoginChangesNothing ==
    \A username \in Usernames, password \in Passwords :
        Returned("login", <<username, password>>)
        => LET user == UserManagerGet(result.before, username)
           IN  /\ user = NULL => ~result.success /\ result.message = "User not found"
               /\ user # NULL /\ user.password # password
                  => ~result.success /\ result.message = "Incorrect password"
               /\ ~result.success
                  => /\ result.writes = 0
                     /\ SameSession(localStorage, result.before)
                     /\ localStorage = result.before

\* C8's case: bob's login with a wrong password has failed while alice is logged in.
C8_Witness ==
    /\ Returned("login", <<"bob", "short">>)
    /\ result.message = "Incorrect password"
    /\ SessionIs(localStorage, "alice")

\* C9 (as claimed; the code violates it): after a login that reported
\* success the session pointer names its username and an account, no call
\* but a logout or a successful login changes the pointer, and
\* getCurrentUser returns the account the pointer names, or null when the
\* pointer is unset or names no account.
C9_CurrentAccount ==
    /\ result.op = "login" /\ result.success
          => /\ SessionIs(localStorage, result.args[1])
             /\ UserManagerGet(localStorage, result.args[1]) # NULL
    /\ result.op \notin {"none", "logout"} /\ ~(result.op = "login" /\ result.success)
          => SameSession(localStorage, result.before)
    /\ result.op = "getCurrentUser"
          => IF \E u \in Usernames :
                    SessionIs(result.before, u) /\ UserManagerGet(result.before, u) # NULL
             THEN held # NULL /\ SessionIs(result.before, held.username)
             ELSE held = NULL

----------------------------------------------------------------------------
\* The accounts a status refresh has just produced: the object that
\* updateKeyStatus or getCurrentUser returned, and the record a successful
\* login wrote (all of its writes accepted).
Refreshed ==
    IF result.op \in {"getCurrentUser", "updateKeyStatus"} /\ held # NULL THEN {held}
    ELSE IF result.op = "login" /\ result.success /\ result.refused = 0
         THEN {UserManagerGet(localStorage, result.args[1])}
    ELSE {}

\* C11 (as claimed; the code differs at the instant of expiry): every key of
\* an account that a refresh returned or a successful login persisted has
\* active = (expiryDate = null or expiryDate > now).
C11_ActiveStrictlyBefore ==
    \A user \in Refreshed : \A i \in 1..Len(user.keys) :
        user.keys[i].active
            = (user.keys[i].expiryDate = NULL \/ TimeGT(user.keys[i].expiryDate, now))

\* C11 (amended): every key of such an account has active = (expiryDate =
\* null or expiryDate >= t), t being the instant at which the operation read
\* the clock for that key, between its call and its return: the key is
\* active when it has no expiry or its expiry is not before the return, the
\* instant of expiry included, and inactive when its expiry is before the call.
C11_ActiveUntilExpiry ==
    \A user \in Refreshed : \A i \in 1..Len(user.keys) :
        LET key == user.keys[i]
        IN  /\ key.expiryDate = NULL => key.active
            /\ key.expiryDate # NULL /\ ~TimeGT(now, key.expiryDate) => key.active
            /\ key.expiryDate # NULL /\ TimeGT(result.at, key.expiryDate) => ~key.active

\* C11's case: getCurrentUser has returned, at the instant a key expires, an
\* account whose key is active.
C11_Witness ==
    /\ result.op = "getCurrentUser"
    /\ held # NULL
    /\ \E i \in 1..Len(held.keys) :
          held.keys[i].expiryDate = now /\ held.keys[i].active

\* The expiry dates the store and the page's user object hold, and null.
ExpiryDates ==
    {NULL} \cup UNION {{a.keys[i].expiryDate : i \in 1..Len(a.keys)} : a \in Accounts(localStorage)}
           \cup (IF held = NULL THEN {} ELSE {held.keys[i].expiryDate : i \in 1..Len(held.keys)})

\* C12: isExpired is false for a null expiry; for any other expiry it is
\* now > expiry: false at every instant up to and including the expiry, true
\* one millisecond after it and at every later instant.
C12_IsExpiredBoundary ==
    \A e \in ExpiryDates :
        /\ e = NULL => \A t \in Instants \cup {now} : ~isExpired(e, t)
        /\ e # NULL =>
              /\ isExpired(e, now) = TimeGT(now, e)
              /\ ~isExpired(e, e)
              /\ isExpired(e, TimeAdd(e, Millis(1)))
              /\ \A t \in Instants :
                    /\ ~TimeGT(t, e) => ~isExpired(e, t)
                    /\ TimeGT(t, e) => isExpired(e, t)
                    /\ isExpired(e, t) => \A later \in Instants :
                                             TimeGT(later, t) => isExpired(e, later)

\* C12's case: the clock is one millisecond past the expiry of a stored key,
\* which a refresh has just turned inactive.
C12_Witness ==
    /\ result.op \in {"login", "getCurrentUser", "updateKeyStatus"}
    /\ \E a \in Accounts(localStorage) : \E i \in 1..Len(a.keys) :
          /\ a.keys[i].expiryDate # NULL
          /\ now = TimeAdd(a.keys[i].expiryDate, Millis(1))
          /\ isExpired(a.keys[i].expiryDate, now)
          /\ ~a.keys[i].active

\* C13 (as claimed; the code violates it): every stored key of a duration
\* other than lifetime has expiryDate = activatedDate + the milliseconds of
\* its duration, and every lifetime key has expiryDate = null.
C13_ExpiryExact ==
    \A a \in Accounts(localStorage) : \A i \in 1..Len(a.keys) :
        LET key == a.keys[i]
        IN  IF key.duration = "lifetime" THEN key.expiryDate = NULL
            ELSE key.expiryDate = TimeAdd(key.activatedDate, DURATIONS[key.duration].ms)

\* Every flag of user is what a refresh at instant t computes.
Fresh(user, t) ==
    \A i \in 1..Len(user.keys) :
        user.keys[i].active = ~isExpired(user.keys[i].expiryDate, t)

\* The user object a refresh that is now being called works on: the page's
\* object, or the record the session pointer names (null when there is none).
RefreshInput(op) ==
    IF op = "updateKeyStatus" THEN held
    ELSE IF CURRENT_USER_KEY \in DOMAIN localStorage
         THEN UserManagerGet(localStorage, localStorage[CURRENT_USER_KEY])
    ELSE NULL

\* C14: a refresh (updateKeyStatus, also as getCurrentUser runs it) makes
\* exactly one write, of the refreshed account, when the recomputed active
\* flag of at least one key differs from the one it was given, and none when
\* no flag differs, in which case the store stays as it was.  A refresh during
\* which no time elapses leaves the account with the flags of the present
\* instant, and a refresh of an account that has these flags, again with no
\* time elapsing, writes nothing: the second of two refreshes in succession.
C14_RefreshWrites ==
    [][\A op \in {"updateKeyStatus", "getCurrentUser"} :
          /\ result.op = "none"
          /\ result'.op = op
          /\ RefreshInput(op) # NULL
          => LET user    == RefreshInput(op)
                 changed == \E i \in 1..Len(user.keys) :
                                held'.keys[i].active # user.keys[i].active
             IN  /\ Len(held'.keys) = Len(user.keys)
                 /\ result'.writes = IF changed THEN 1 ELSE 0
                 /\ ~changed => localStorage' = localStorage
                 /\ changed /\ result'.refused = 0
                    => /\ UserManagerGet(localStorage', user.username) = held'
                       /\ \A k \in DOMAIN localStorage :
                             k # STORAGE_PREFIX \o user.username
                             => k \in DOMAIN localStorage' /\ localStorage'[k] = localStorage[k]
                 /\ Fresh(user, now) /\ now' = now
                    => result'.writes = 0 /\ localStorage' = localStorage
                 /\ now' = now => Fresh(held', now')]_vars

\* C14's case: a refresh has turned an expired key inactive and written the
\* account once.
C14_Witness ==
    /\ result.op = "updateKeyStatus"
    /\ result.writes = 1
    /\ result.refused = 0
    /\ \E i \in 1..Len(held.keys) :
          /\ TimeGT(now, held.keys[i].expiryDate)
          /\ ~held.keys[i].active
    /\ UserManagerGet(localStorage, held.username) = held
    /\ UserManagerGet(result.before, held.username) # held

\* The account objects getActiveCount is called with: the page's `user`, and
\* the stored record that Dashboard.refresh reads with UserManager.get.
Presented == Accounts(localStorage) \cup (IF held = NULL THEN {} ELSE {held})

\* C15 (as claimed; the code violates it): getActiveCount of an account is
\* the number of its keys that are not expired at the present instant, also
\* when the clock has passed an expiry since the object was read or refreshed.
C15_ActiveCount ==
    \A user \in Presented :
        getActiveCount(user)
            = Cardinality({i \in 1..Len(user.keys) : ~isExpired(user.keys[i].expiryDate, now)})

\* The account the session pointer of store ls names, or null.
SessionAccount(ls) ==
    IF CURRENT_USER_KEY \in DOMAIN ls THEN UserManagerGet(ls, ls[CURRENT_USER_KEY]) ELSE NULL

\* C16 (as claimed; the code violates its last part when a write is
\* refused): changePassword fails with "Not logged in" without a resolvable
\* session, else with "Current password is incorrect", else with the
\* validator's message for the new password, else with "Passwords do not
\* match"; a failure leaves every stored password as it was; a success leaves
\* the new password in the session's account and every other record as it was.
C16_ChangePassword ==
    \A currentPassword, newPassword, confirmPassword \in Passwords :
        Returned("changePassword", <<currentPassword, newPassword, confirmPassword>>)
        => LET user       == SessionAccount(result.before)
               validation == ValidatorPassword(newPassword)
               failure    == IF user = NULL THEN "Not logged in"
                             ELSE IF user.password # currentPassword
                                  THEN "Current password is incorrect"
                             ELSE IF ~validation.valid THEN validation.message
                             ELSE IF newPassword # confirmPassword THEN "Passwords do not match"
                             ELSE UNDEFINED
           IN  /\ failure # UNDEFINED => ~result.success /\ result.message = failure
               /\ failure = UNDEFINED => result.success
               /\ ~result.success
                  => \A a \in Accounts(result.before) :
                        UserManagerGet(localStorage, a.username).password = a.password
               /\ result.success
                  => /\ UserManagerGet(localStorage, user.username).password = newPassword
                     /\ \A a \in Accounts(result.before) :
                           a.username # user.username
                           => UserManagerGet(localStorage, a.username) = a

\* C17: every stored account is stored under its own username and has
\* isAdmin = (the type of its registration key, the first of its keys, is
\* "Admin"); no call (login, redeem, also of the Admin code, changePassword,
\* a refresh, logout, register) removes an account or changes its username,
\* its isAdmin or its registration key.
C17_IsAdminImmutable ==
    /\ \A k \in DOMAIN localStorage \ {CURRENT_USER_KEY} :
          /\ k = STORAGE_PREFIX \o localStorage[k].username
          /\ Len(localStorage[k].keys) >= 1
          /\ localStorage[k].isAdmin = (localStorage[k].keys[1].type = "Admin")
    /\ held # NULL => held.isAdmin = (held.keys[1].type = "Admin")
    /\ result.op # "none"
          => \A k \in DOMAIN result.before \ {CURRENT_USER_KEY} :
                /\ k \in DOMAIN localStorage
                /\ localStorage[k].username = result.before[k].username
                /\ localStorage[k].isAdmin = result.before[k].isAdmin
                /\ localStorage[k].keys[1].code = result.before[k].keys[1].code
                /\ localStorage[k].keys[1].type = result.before[k].keys[1].type

\* C17's case: an account that has redeemed a second key has now tried the
\* Admin code, and is no administrator.
C17_Witness ==
    /\ Returned("redeem", <<"ADMIN-2025-MASTER-KEY">>)
    /\ held # NULL
    /\ Len(held.keys) = 2
    /\ UserManagerGet(localStorage, held.username) = held
    /\ ~held.isAdmin

\* C18: after a logout the session pointer is unset and every account record
\* is as it was; a logout of a store with no session, such as a second logout,
\* leaves the store as it was; while the pointer is unset getCurrentUser
\* returns null, and only a successful login sets it again.
C18_Logout ==
    /\ result.op = "logout"
          => /\ CURRENT_USER_KEY \notin DOMAIN localStorage
             /\ localStorage = StorageRemove(result.before, CURRENT_USER_KEY)
             /\ Accounts(localStorage) = Accounts(result.before)
             /\ StorageRemove(localStorage, CURRENT_USER_KEY) = localStorage
             /\ CURRENT_USER_KEY \notin DOMAIN result.before => localStorage = result.before
    /\ result.op = "getCurrentUser" /\ CURRENT_USER_KEY \notin DOMAIN result.before
          => held = NULL /\ ~result.success
    /\ /\ result.op # "none"
       /\ CURRENT_USER_KEY \notin DOMAIN result.before
       /\ CURRENT_USER_KEY \in DOMAIN localStorage
       => result.op = "login" /\ result.success

\* C18's case: alice was logged in and has logged out; her record is still there.
C18_Witness ==
    /\ result.op = "logout"
    /\ SessionIs(result.before, "alice")
    /\ CURRENT_USER_KEY \notin DOMAIN localStorage
    /\ UserManagerGet(localStorage, "alice") # NULL

\* C19: with two tabs on one store, a register that found the code unused
\* when it scanned the store writes its account and succeeds whenever the
\* browser accepts the write, whatever the other tab has written since the
\* scan, and a register succeeds only so; two registers with different
\* usernames that both succeed both leave their account in the store, each
\* with its code, also when the two codes are the same.
C19_ScanThenWrite ==
    /\ \A t \in Tabs :
          /\ tabs[t].pc = "done" /\ tabs[t].scanned /\ tabs[t].accepted
             => tabs[t].success /\ tabs[t].message = "Account created successfully!"
          /\ tabs[t].pc = "done" /\ tabs[t].success
             => tabs[t].scanned /\ tabs[t].accepted
    /\ \A s, t \in Tabs :
          /\ tabs[s].pc = "done" /\ tabs[s].success
          /\ tabs[t].pc = "done" /\ tabs[t].success
          /\ tabs[s].username # tabs[t].username
          => /\ UserManagerGet(localStorage, tabs[t].username) # NULL
             /\ CodesOf(UserManagerGet(localStorage, tabs[t].username)) = {tabs[t].key}

\* C19's case: both tabs have registered, alice and bob, with the same code,
\* both passed the scan, and both accounts are stored holding that code.
C19_Witness ==
    /\ \A t \in Tabs : tabs[t].pc = "done" /\ tabs[t].success /\ tabs[t].scanned
    /\ tabs["tab1"].username = "alice"
    /\ tabs["tab2"].username = "bob"
    /\ tabs["tab1"].key = tabs["tab2"].key
    /\ UserManagerGet(localStorage, "alice") # NULL
    /\ UserManagerGet(localStorage, "bob") # NULL
    /\ CodesOf(UserManagerGet(localStorage, "alice")) \cap CodesOf(UserManagerGet(localStorage, "bob"))
          = {tabs["tab1"].key}

\* C20 (as claimed; the code violates it): a successful redeem, called with
\* the object the page got from an earlier getCurrentUser, whose write the
\* browser accepts, leaves the stored password, lastLogin and every key the
\* account had stored as they were just before it, and appends one key.
C20_RedeemFrame ==
    \A key \in Codes :
        /\ Returned("redeem", <<key>>)
        /\ result.success
        /\ result.refused = 0
        => LET before == UserManagerGet(result.before, held.username)
               after  == UserManagerGet(localStorage, held.username)
           IN  /\ before # NULL
               /\ after # NULL
               /\ after.password = before.password
               /\ after.lastLogin = before.lastLogin
               /\ Len(after.keys) = Len(before.keys) + 1
               /\ SubSeq(after.keys, 1, Len(before.keys)) = before.keys
               /\ after.keys[Len(after.keys)].code = key

====
